---- MODULE Spec2Model ----
(***************************************************************************)
(* Model of make_ci.py: the command driver (module level code) and the     *)
(* line rewriter make_insensitive().  Strings are sequences of one         *)
(* character tokens; indices and slices follow Python (0-based, half open).*)
(***************************************************************************)
EXTENDS Integers, Sequences, FiniteSets, TLC

VARIABLES args, i, pc, filename, out_filename, handles, inpos, line,
          fs, fs0, stdout, exitStatus, raised, calls, opened

vars == <<args, i, pc, filename, out_filename, handles, inpos, line,
          fs, fs0, stdout, exitStatus, raised, calls, opened>>

\* ------------------------------------------------------------------ bounds
MaxLen == 5
MaxArgs == 2

\* ------------------------------------------------------- characters, text
QUOTE == "'"
SLASH == "/"
NL == "\n"
COMMENT == <<SLASH, SLASH>>

\* Characters a line body is drawn from.  u00DF (sharp s), u00B5 (micro sign)
\* and u0130 (capital I with dot above) stand for the code points whose case
\* mappings are not one-to-one.
Alphabet == {QUOTE, SLASH, "a", "B", "u00DF", "u00B5", "u0130"}

\* str.upper() of one character: a sequence, since it can lengthen the text.
UpperCh(c) ==
  CASE c = "a" -> <<"A">>
    [] c = "b" -> <<"B">>
    [] c = "s" -> <<"S">>
    [] c = "i" -> <<"I">>
    [] c = "u00DF" -> <<"S", "S">>
    [] c = "u00B5" -> <<"u039C">>
    [] c = "u03BC" -> <<"u039C">>
    [] OTHER -> <<c>>

\* str.lower() of one character.
LowerCh(c) ==
  CASE c = "A" -> <<"a">>
    [] c = "B" -> <<"b">>
    [] c = "S" -> <<"s">>
    [] c = "I" -> <<"i">>
    [] c = "u039C" -> <<"u03BC">>
    [] c = "u0130" -> <<"i", "u0307">>
    [] OTHER -> <<c>>

RECURSIVE Upper(_)
\* text.upper()
Upper(text) ==
  IF text = <<>> THEN <<>> ELSE UpperCh(Head(text)) \o Upper(Tail(text))

\* line[lo:hi] for 0 <= lo, hi <= len(line)
Slice(s, lo, hi) == SubSeq(s, lo + 1, hi)

\* s.find(sub, start): lowest 0-based index >= start where sub occurs, or -1
Find(s, sub, start) ==
  LET cands == {k \in start..(Len(s) - Len(sub)) :
                  SubSeq(s, k + 1, k + Len(sub)) = sub}
  IN  IF cands = {} THEN -1
      ELSE CHOOSE k \in cands : \A m \in cands : k <= m

\* s.endswith(suf)
EndsWith(s, suf) ==
  /\ Len(s) >= Len(suf)
  /\ SubSeq(s, Len(s) - Len(suf) + 1, Len(s)) = suf

\* '[%c%c]' % (ch, ch.lower()) succeeds only when both arguments are single
\* characters; otherwise it raises TypeError.
FormatOK(ch) == Len(LowerCh(ch)) = 1

\* Format with the two characters in the other order
FormatSwapped(ch) == <<"[">> \o LowerCh(ch) \o <<ch, "]">>

Format(ch) == <<"[", ch>> \o LowerCh(ch) \o <<"]">>

RECURSIVE Insens(_)
\* ''.join(['[%c%c]' % (ch, ch.lower()) for ch in text])
Insens(text) ==
  IF text = <<>> THEN <<>> ELSE Format(Head(text)) \o Insens(Tail(text))

\* ------------------------------------------------- one line of the rewriter
i_comment(l) == Find(l, COMMENT, 0)

i_quote(l) == Find(l, <<QUOTE>>, 0)

\* Recognized without the comment test
RecognizedNoComment(l) == i_quote(l) # -1

\* the condition of the outer if
Recognized(l) ==
  /\ i_quote(l) # -1
  /\ (i_comment(l) = -1 \/ i_quote(l) < i_comment(l))

i_endquote(l) == Find(l, <<QUOTE>>, i_quote(l) + 1)

\* the upper-cased text between the quotes (only used when a span is found)
LiteralText(l) == Upper(Slice(l, i_quote(l) + 1, i_endquote(l)))

\* HasSpan without the test of the closing quote
HasSpanNoEnd(l) == Recognized(l)

HasSpan(l) == Recognized(l) /\ i_endquote(l) # -1

\* the list comprehension raises TypeError on this line
RewriteRaises(l) ==
  /\ HasSpan(l)
  /\ \E k \in 1..Len(LiteralText(l)) : ~FormatOK(LiteralText(l)[k])

\* the value of `line` handed to out.write()
Rewrite(l) ==
  IF HasSpan(l)
  THEN Slice(l, 0, i_quote(l)) \o Insens(LiteralText(l))
         \o Slice(l, i_endquote(l) + 1, Len(l))
  ELSE l

\* ------------------------------------------------------------ file names
G4IN == <<".", "g", "4", ".", "i", "n">>

NameA == <<"a">> \o G4IN

NameB == <<"b">> \o G4IN

NameAA == <<"a">> \o G4IN \o G4IN

NameAG4 == <<"a", ".", "g", "4">>

NameTxt == <<"n", "o", "t", "e", "s", ".", "t", "x", "t">>

\* names that can be given on the command line
ArgNames == {NameA, NameB, NameAA, NameAG4, NameTxt}

\* the test of the driver loop and of make_insensitive
Accepted(f) == EndsWith(f, G4IN)

\* OutFilename chopping one character too many
OutFilenameChop4(f) == Slice(f, 0, Len(f) - 4)

\* OutFilename that keeps the name
OutFilenameSame(f) == f

\* out_filename = filename[:-3]
OutFilename(f) == Slice(f, 0, Len(f) - 3)

\* every file name the run can touch
Files == ArgNames \cup {OutFilename(f) : f \in {g \in ArgNames : Accepted(g)}}

\* ------------------------------------------------------- file contents
\* KEY 'ab' // c
Line1 == <<"K", " ", QUOTE, "a", "B", QUOTE, " ", SLASH, SLASH, " ", "c", NL>>

\* an unterminated literal, last line without terminator
Line2 == <<"K", " ", QUOTE, "a">>

\* a literal holding U+0130
Line3 == <<QUOTE, "u0130", QUOTE, NL>>

\* second line of the files of LineSpec
Fixed == <<"B", QUOTE, "a", QUOTE, NL>>

SourceContents == {<<Line1, Line2>>, <<Line1, Line3, Line1>>}

OtherContent == <<<<"x", NL>>>>

\* all sequences over S of length 0..n
SeqsUpTo(S, n) == UNION {[1..k -> S] : k \in 0..n}

\* line bodies: no terminator inside
Bodies == SeqsUpTo(Alphabet, MaxLen)

\* files of LineSpec: one arbitrary line, last or followed by a fixed line
LineFiles ==
  {<<b>> : b \in Bodies \ {<<>>}} \cup {<<b \o <<NL>>, Fixed>> : b \in Bodies}

\* file systems: any subset of Files exists; sources hold SourceContents
FileSystems ==
  UNION {{f \in [S -> SourceContents \cup {OtherContent}] :
            \A n \in S : (f[n] = OtherContent) <=> ~Accepted(n)} :
         S \in SUBSET Files}

\* --------------------------------------------------------------- stdout
\* UsageText without its last print()
UsageTextTwo == <<<<"usage">>, <<"Converts">>>>

\* the three print() calls of the usage branch
UsageText == <<<<"usage">>, <<"Converts">>, <<"Requires">>>>

Warning(f) == <<"WARNING", f>>

\* status when the module body runs to its end
NormalExit == 0

\* UsageExit with the status of a normal end
UsageExitZero == NormalExit

\* sys.exit(1)
UsageExit == 1

\* status of an interpreter ended by an uncaught exception
UncaughtExit == 1

\* WithExit that closes only the output handle
WithExitLeak(hs, f, o) == hs \ {<<o, "w">>}

\* the open handles after the with-block of (f, o) is left, normally or by an
\* exception: both context managers that were entered are closed
WithExit(hs, f, o) == hs \ {<<f, "r">>, <<o, "w">>}

\* NextArg when a skip also drops the following argument
NextArgTwo(k) == k + 2

\* loop variable after the body (continue or fall through)
NextArg(k) == k + 1

\* ----------------------------------------------------------------- Init
InitCommon ==
  /\ i = 1
  /\ pc = "start"
  /\ filename = <<>>
  /\ out_filename = <<>>
  /\ handles = {}
  /\ inpos = 0
  /\ line = <<>>
  /\ fs0 = fs
  /\ stdout = <<>>
  /\ exitStatus = -1
  /\ raised = FALSE
  /\ calls = <<>>
  /\ opened = {}

Init ==
  /\ args \in SeqsUpTo(ArgNames, MaxArgs)
  /\ fs \in FileSystems
  /\ InitCommon

InitLine ==
  /\ args = <<NameA>>
  /\ fs \in {[n \in {NameA} |-> c] : c \in LineFiles}
  /\ InitCommon

\* --------------------------------------------------------------- driver
\* if len(sys.argv) == 1: print usage, sys.exit(1)
Usage ==
  /\ pc = "start"
  /\ Len(args) = 0
  /\ stdout' = stdout \o UsageText
  /\ exitStatus' = UsageExit
  /\ pc' = "exit"
  /\ UNCHANGED <<args, i, filename, out_filename, handles, inpos, line,
                 fs, fs0, raised, calls, opened>>

EnterLoop ==
  /\ pc = "start"
  /\ Len(args) # 0
  /\ pc' = "loop"
  /\ UNCHANGED <<args, i, filename, out_filename, handles, inpos, line,
                 fs, fs0, stdout, exitStatus, raised, calls, opened>>

\* wrong suffix: warning, continue
Skip ==
  /\ pc = "loop"
  /\ i <= Len(args)
  /\ ~Accepted(args[i])
  /\ stdout' = Append(stdout, Warning(args[i]))
  /\ i' = NextArg(i)
  /\ UNCHANGED <<args, pc, filename, out_filename, handles, inpos, line,
                 fs, fs0, exitStatus, raised, calls, opened>>

\* make_insensitive(filename): entry, suffix check, out_filename
Call ==
  /\ pc = "loop"
  /\ i <= Len(args)
  /\ Accepted(args[i])
  /\ calls' = Append(calls, i)
  /\ filename' = args[i]
  /\ IF ~Accepted(args[i])
     THEN /\ raised' = TRUE
          /\ exitStatus' = UncaughtExit
          /\ pc' = "exit"
          /\ out_filename' = out_filename
     ELSE /\ out_filename' = OutFilename(args[i])
          /\ pc' = "open_in"
          /\ UNCHANGED <<raised, exitStatus>>
  /\ UNCHANGED <<args, i, handles, inpos, line, fs, fs0, stdout, opened>>

\* the for loop is exhausted: the interpreter exits normally
Finish ==
  /\ pc = "loop"
  /\ i > Len(args)
  /\ exitStatus' = NormalExit
  /\ pc' = "exit"
  /\ UNCHANGED <<args, i, filename, out_filename, handles, inpos, line,
                 fs, fs0, stdout, raised, calls, opened>>

\* ------------------------------------------------------------- rewriter
\* an exception leaves the with-block and is not caught anywhere
Abort ==
  /\ handles' = WithExit(handles, filename, out_filename)
  /\ raised' = TRUE
  /\ exitStatus' = UncaughtExit
  /\ pc' = "exit"

\* open(filename)
OpenIn ==
  /\ pc = "open_in"
  /\ filename \in DOMAIN fs
  /\ handles' = handles \cup {<<filename, "r">>}
  /\ inpos' = 0
  /\ opened' = opened \cup {<<filename, "r", i>>}
  /\ pc' = "open_out"
  /\ UNCHANGED <<args, i, filename, out_filename, line, fs, fs0,
                 stdout, exitStatus, raised, calls>>

\* open(filename) raises: the file does not exist
OpenInFail ==
  /\ pc = "open_in"
  /\ filename \notin DOMAIN fs
  /\ Abort
  /\ UNCHANGED <<args, i, filename, out_filename, inpos, line, fs, fs0,
                 stdout, calls, opened>>

\* open(out_filename, 'w'): creates or truncates
OpenOut ==
  /\ pc = "open_out"
  /\ handles' = handles \cup {<<out_filename, "w">>}
  /\ fs' = [n \in DOMAIN fs \cup {out_filename} |->
              IF n = out_filename THEN <<>> ELSE fs[n]]
  /\ opened' = opened \cup {<<out_filename, "w", i>>}
  /\ pc' = "read"
  /\ UNCHANGED <<args, i, filename, out_filename, inpos, line, fs0,
                 stdout, exitStatus, raised, calls>>

\* open(out_filename, 'w') raises (e.g. permission denied)
OpenOutFail ==
  /\ pc = "open_out"
  /\ Abort
  /\ UNCHANGED <<args, i, filename, out_filename, inpos, line, fs, fs0,
                 stdout, calls, opened>>

\* line = inp.readline(), line != ''
ReadLine ==
  /\ pc = "read"
  /\ inpos < Len(fs[filename])
  /\ line' = fs[filename][inpos + 1]
  /\ inpos' = inpos + 1
  /\ pc' = "write"
  /\ UNCHANGED <<args, i, filename, out_filename, handles, fs, fs0,
                 stdout, exitStatus, raised, calls, opened>>

\* inp.readline() raises
ReadFail ==
  /\ pc = "read"
  /\ Abort
  /\ UNCHANGED <<args, i, filename, out_filename, inpos, line, fs, fs0,
                 stdout, calls, opened>>

\* line == '': break, leave the with-block, return to the driver loop
ReadEOF ==
  /\ pc = "read"
  /\ inpos = Len(fs[filename])
  /\ handles' = WithExit(handles, filename, out_filename)
  /\ filename' = <<>>
  /\ out_filename' = <<>>
  /\ line' = <<>>
  /\ inpos' = 0
  /\ i' = NextArg(i)
  /\ pc' = "loop"
  /\ UNCHANGED <<args, fs, fs0, stdout, exitStatus, raised, calls, opened>>

\* the body of the loop after the read: rewrite the line, out.write(line)
WriteLine ==
  /\ pc = "write"
  /\ ~RewriteRaises(line)
  /\ line' = Rewrite(line)
  /\ fs' = [fs EXCEPT ![out_filename] = Append(@, Rewrite(line))]
  /\ pc' = "read"
  /\ UNCHANGED <<args, i, filename, out_filename, handles, inpos, fs0,
                 stdout, exitStatus, raised, calls, opened>>

\* the list comprehension raises TypeError
RewriteFail ==
  /\ pc = "write"
  /\ RewriteRaises(line)
  /\ Abort
  /\ UNCHANGED <<args, i, filename, out_filename, inpos, line, fs, fs0,
                 stdout, calls, opened>>

\* out.write(line) raises (e.g. disk full)
WriteFail ==
  /\ pc = "write"
  /\ ~RewriteRaises(line)
  /\ Abort
  /\ UNCHANGED <<args, i, filename, out_filename, inpos, line, fs, fs0,
                 stdout, calls, opened>>

Next ==
  \/ Usage
  \/ EnterLoop
  \/ Skip
  \/ Call
  \/ Finish
  \/ OpenIn
  \/ OpenInFail
  \/ OpenOut
  \/ OpenOutFail
  \/ ReadLine
  \/ ReadFail
  \/ ReadEOF
  \/ WriteLine
  \/ RewriteFail
  \/ WriteFail

Spec == Init /\ [][Next]_vars

NextLine ==
  \/ EnterLoop
  \/ Call
  \/ Finish
  \/ OpenIn
  \/ OpenOut
  \/ ReadLine
  \/ ReadEOF
  \/ WriteLine
  \/ RewriteFail

LineSpec == InitLine /\ [][NextLine]_vars

TypeOK ==
  /\ pc \in {"start", "loop", "open_in", "open_out", "read", "write", "exit"}
  /\ exitStatus \in {-1, 0, 1}
  /\ handles \subseteq Files \X {"r", "w"}

\* =================================================================== claims
\* the lines of a file, <<>> when it does not exist
Written(n) == IF n \in DOMAIN fs THEN fs[n] ELSE <<>>

\* source and output of the single argument of LineSpec
SrcA == fs0[NameA]

OutA == Written(NameAG4)

MinOr0(S) == IF S = {} THEN 0 ELSE CHOOSE x \in S : \A y \in S : x <= y

\* 1-based positions on a line, 0 when absent
FirstQuote(l) == MinOr0({p \in 1..Len(l) : l[p] = QUOTE})

FirstComment(l) ==
  MinOr0({p \in 1..(Len(l) - 1) : l[p] = SLASH /\ l[p + 1] = SLASH})

NextQuote(l) ==
  MinOr0({p \in 1..Len(l) : p > FirstQuote(l) /\ l[p] = QUOTE})

\* a quote before any comment marker
QuoteFirst(l) ==
  /\ FirstQuote(l) # 0
  /\ (FirstComment(l) = 0 \/ FirstQuote(l) < FirstComment(l))

\* the case of C1: a terminated literal before any comment marker
TerminatedLiteral(l) == QuoteFirst(l) /\ NextQuote(l) # 0

\* the case of C3: an unterminated literal before any comment marker
UnterminatedLiteral(l) == QuoteFirst(l) /\ NextQuote(l) = 0

\* the cases of C2: no quote, or the first quote after a comment marker
NoLiteral(l) ==
  \/ FirstQuote(l) = 0
  \/ (FirstComment(l) # 0 /\ FirstComment(l) < FirstQuote(l))

LiteralOf(l) == SubSeq(l, FirstQuote(l) + 1, NextQuote(l) - 1)

BeforeOf(l) == SubSeq(l, 1, FirstQuote(l) - 1)

AfterOf(l) == SubSeq(l, NextQuote(l) + 1, Len(l))

RECURSIVE PerCharExpand(_)
\* '[' upper(c) lower(c) ']' for each character c of the literal itself
PerCharExpand(text) ==
  IF text = <<>> THEN <<>>
  ELSE <<"[">> \o UpperCh(Head(text)) \o LowerCh(Head(text)) \o <<"]">>
         \o PerCharExpand(Tail(text))

IsExpansion(E, U) ==
  /\ Len(E) = 4 * Len(U)
  /\ \A j \in 1..Len(U) :
       /\ E[4 * j - 3] = "["
       /\ E[4 * j - 2] = U[j]
       /\ <<E[4 * j - 1]>> = LowerCh(U[j])
       /\ E[4 * j] = "]"

\* some character of the upper-cased literal has no one-character lower form
Unformattable(l) ==
  /\ TerminatedLiteral(l)
  /\ \E j \in 1..Len(Upper(LiteralOf(l))) :
       Len(LowerCh(Upper(LiteralOf(l))[j])) # 1

C9_CommentUntouched ==
  \A k \in 1..Len(OutA) :
    LET l == SrcA[k]
        tail == SubSeq(l, FirstComment(l), Len(l))
    IN  FirstComment(l) # 0 =>
          /\ Len(OutA[k]) >= Len(tail)
          /\ SubSeq(OutA[k], Len(OutA[k]) - Len(tail) + 1, Len(OutA[k])) = tail
          /\ (OutA[k] # l => NextQuote(l) < FirstComment(l))

\* ------------------------------------------------------- driver claims
DOTIN == <<".", "i", "n">>

DOTG4 == <<".", "g", "4">>

Count(seq, x) == Cardinality({j \in DOMAIN seq : seq[j] = x})

InRewriter == pc \in {"open_in", "open_out", "read", "write"}

RECURSIVE WarnsUpTo(_)
\* the warning lines of the skipped arguments among the first n, in order
WarnsUpTo(n) ==
  IF n = 0 THEN <<>>
  ELSE WarnsUpTo(n - 1) \o
         (IF Accepted(args[n]) THEN <<>> ELSE <<<<"WARNING", args[n]>>>>)

\* C4 (as stated): with at least one argument, when the run has ended every
\* skipped argument has produced exactly one warning and every accepted
\* argument has been passed to the rewriter exactly once.
C4_Original ==
  (pc = "exit" /\ Len(args) >= 1) =>
    /\ stdout = WarnsUpTo(Len(args))
    /\ \A k \in 1..Len(args) :
         Count(calls, k) = IF Accepted(args[k]) THEN 1 ELSE 0

\* C4 (amended): the arguments are handled in order; each skipped argument
\* reached produces exactly one warning, no call of the rewriter and no open
\* of any file, and the next argument is then examined; each accepted
\* argument reached is passed to the rewriter exactly once; the only way the
\* run stops before the last argument is an exception raised while an
\* accepted argument is rewritten.
C4_Amended ==
  Len(args) >= 1 =>
    /\ i \in 1..(Len(args) + 1)
    /\ stdout = WarnsUpTo(i - 1)
    /\ \A k \in 1..Len(args) :
         Count(calls, k) =
           IF Accepted(args[k]) /\ (k < i \/ (k = i /\ (InRewriter \/ raised)))
           THEN 1 ELSE 0
    /\ \A j \in 1..(Len(calls) - 1) : calls[j] < calls[j + 1]
    /\ \A e \in opened : Accepted(args[e[3]]) /\ Count(calls, e[3]) = 1
    /\ raised => (pc = "exit" /\ i <= Len(args) /\ Accepted(args[i]))
    /\ (pc = "exit" /\ ~raised) => i = Len(args) + 1

\* a skipped argument was followed by an accepted one that was rewritten
C4_Witness ==
  /\ pc = "exit"
  /\ ~raised
  /\ Len(args) = 2
  /\ ~Accepted(args[1])
  /\ stdout = <<<<"WARNING", args[1]>>>>
  /\ calls = <<2>>

\* C5 (as stated): with no argument the run prints a two-line usage message,
\* ends with a non-zero status and touches no file.
C5_Original ==
  (pc = "exit" /\ Len(args) = 0) =>
    /\ Len(stdout) = 2
    /\ exitStatus \notin {-1, 0}
    /\ calls = <<>> /\ opened = {} /\ handles = {} /\ fs = fs0

\* C5 (amended): with no argument the run prints the three-line usage
\* message, ends with a non-zero status, and neither calls the rewriter nor
\* opens, creates or writes any file.
C5_Amended ==
  Len(args) = 0 =>
    /\ pc \in {"start", "exit"}
    /\ calls = <<>> /\ opened = {} /\ handles = {} /\ fs = fs0
    /\ pc = "exit" =>
         /\ stdout = <<<<"usage">>, <<"Converts">>, <<"Requires">>>>
         /\ exitStatus \notin {-1, 0}

\* the run without arguments has ended, with files present
C5_Witness ==
  /\ pc = "exit"
  /\ Len(args) = 0
  /\ Len(stdout) = 3
  /\ NameA \in DOMAIN fs

\* C6 (as stated): the exit status is 1 exactly when there are no arguments,
\* and 0 in every other run, whatever fails while a file is processed.
C6_Original ==
  pc = "exit" =>
    /\ exitStatus \in {0, 1}
    /\ exitStatus = 1 <=> Len(args) = 0

\* C6 (amended): the exit status is 1 exactly when there are no arguments or
\* an exception raised while an accepted argument is rewritten ends the run;
\* it is 0 in every other run, skipped arguments included.
C6_Amended ==
  /\ pc # "exit" => exitStatus = -1
  /\ pc = "exit" =>
       /\ exitStatus \in {0, 1}
       /\ exitStatus = 1 <=> (Len(args) = 0 \/ raised)
       /\ raised => (Len(args) >= 1 /\ Count(calls, i) = 1)
       /\ (\A k \in 1..Len(args) : ~Accepted(args[k])) => ~raised

\* a run with a skipped argument ended by an exception
C6_Witness ==
  /\ pc = "exit"
  /\ raised
  /\ exitStatus = 1
  /\ Len(args) = 2
  /\ ~Accepted(args[1])

\* C7: the output name is the input name without its last three characters
\* '.in'; it ends in '.g4'; distinct accepted arguments have distinct outputs.
C7_OutputName ==
  /\ InRewriter =>
       /\ filename = args[i]
       /\ out_filename \o DOTIN = filename
       /\ EndsWith(out_filename, DOTG4)
  /\ \A e \in opened :
       e[2] = "w" => (e[1] \o DOTIN = args[e[3]] /\ EndsWith(e[1], DOTG4))
  /\ \A e1, e2 \in opened :
       (e1[2] = "w" /\ e2[2] = "w" /\ args[e1[3]] # args[e2[3]])
         => e1[1] # e2[1]

\* two distinct accepted arguments have had their outputs opened
C7_Witness ==
  \E e1, e2 \in opened :
    e1[2] = "w" /\ e2[2] = "w" /\ e1[1] # e2[1] /\ pc = "exit"

\* the file n holds what it held before the run
Untouched(n) ==
  /\ n \in DOMAIN fs <=> n \in DOMAIN fs0
  /\ n \in DOMAIN fs0 => fs[n] = fs0[n]

\* C8 (as stated): accepted sources keep their contents, no name opened for
\* writing is an accepted name, and a skipped argument is never opened.
C8_Original ==
  /\ \A k \in 1..Len(args) : Accepted(args[k]) => Untouched(args[k])
  /\ \A e \in opened : e[2] = "w" => ~Accepted(e[1])
  /\ \A k \in 1..Len(args) :
       ~Accepted(args[k]) => \A e \in opened : e[1] # args[k]

\* C8 (amended): accepted sources keep their contents and no name opened for
\* writing is an accepted name; a skipped argument is never opened for
\* reading, and is opened for writing only as the output X.g4 of an accepted
\* argument X.g4.in of the same run; every file that is not such an output
\* keeps its contents.
C8_Amended ==
  /\ \A k \in 1..Len(args) : Accepted(args[k]) => Untouched(args[k])
  /\ \A e \in opened : e[2] = "w" => ~Accepted(e[1])
  /\ \A e \in opened : e[2] = "r" => Accepted(e[1])
  /\ \A k \in 1..Len(args) :
       ~Accepted(args[k]) =>
         \A e \in opened :
           e[1] = args[k] =>
             (e[2] = "w" /\ Accepted(args[e[3]]) /\ args[e[3]] = args[k] \o DOTIN)
  /\ \A n \in Files :
       (\A k \in 1..Len(args) : args[k] # n \o DOTIN) => Untouched(n)

\* a skipped argument names the output of an accepted one, which was written
C8_Witness ==
  /\ pc = "exit"
  /\ ~raised
  /\ \E k \in 1..Len(args) :
       /\ ~Accepted(args[k])
       /\ \E e \in opened : e[1] = args[k]
       /\ ~Untouched(args[k])
  /\ \E k \in 1..Len(args) : Accepted(args[k]) /\ args[k] \in DOMAIN fs0

\* C10: at most one input and one output handle are open; the output handle
\* is open only together with the input handle of the same argument; lines are
\* written in source order, one per line read; no handle is open when the next
\* argument is examined or when the run has ended, early or not.
C10_Handles ==
  /\ Cardinality({h \in handles : h[2] = "r"}) <= 1
  /\ Cardinality({h \in handles : h[2] = "w"}) <= 1
  /\ pc \in {"start", "loop", "open_in", "exit"} => handles = {}
  /\ pc = "open_out" => handles = {<<args[i], "r">>}
  /\ pc \in {"read", "write"} =>
       /\ handles = {<<args[i], "r">>, <<out_filename, "w">>}
       /\ Len(fs[out_filename]) = IF pc = "read" THEN inpos ELSE inpos - 1
       /\ \A k \in 1..Len(fs[out_filename]) :
            fs[out_filename][k] = Rewrite(fs0[args[i]][k])
  /\ (pc = "exit" /\ ~raised) =>
       \A e \in opened :
         e[2] = "w" =>
           /\ Len(fs[e[1]]) = Len(fs0[args[e[3]]])
           /\ \A k \in 1..Len(fs[e[1]]) :
                fs[e[1]][k] = Rewrite(fs0[args[e[3]]][k])

\* the run ended early after both handles of an argument had been opened
C10_Witness ==
  /\ pc = "exit"
  /\ raised
  /\ handles = {}
  /\ \E e \in opened : e[2] = "w" /\ e[3] = i /\ Len(fs[e[1]]) >= 1

====
